---- MODULE Spec2Model ----
(***************************************************************************)
(* The memoize higher-order function of the post "Memoization: What, Why,  *)
(* and How" (src/src/posts/published/memoization/index.mdx), with the two  *)
(* memoized functions the post builds from it (memoizedAdd, factorial) and *)
(* memoized functions over arbitrary pure functions given as tables.       *)
(***************************************************************************)
EXTENDS Integers, Sequences, FiniteSets, TLC

VARIABLES
    fn,        \* fn[i]: the function passed to memoize for memoized function i
    cache,     \* cache[i]: the `cache` object in the closure of memoized function i
    last,      \* what the most recent call of a memoized function did and returned
               \* (tick alternates, so that no call leaves the state as it was)
    computed,  \* computed[i]: the argument lists fn[i] has returned normally for
    options,   \* options[i]: what the caller passed to memoize after fn
    bulb,      \* the light bulb's state: [current, data]
    sent,      \* the event last sent to the light bulb's reducer
    resetNext, \* what NEXT_STATE_GRAPH holds under RESET
    theme,          \* ThemeProvider's theme as last rendered
    themeQueue,     \* the setTheme calls not yet rendered
    selectedItem,   \* useItemSelection's selectedItem as last rendered
    selectionQueue, \* the setSelectedItem calls not yet rendered
    count,          \* useTripleCount's state as last rendered
    countQueue,     \* the setState calls not yet rendered
    setters,        \* how useTripleCount's handlers call setState
    called,         \* the handlers called since the last render
    notes,          \* the notes App's notes as last rendered
    plainNotes,     \* the notes of the App that calls setNotes directly
    notesQueue,     \* the updates not yet rendered
    storage,        \* localStorage under YOUR_LOCAL_STORAGE_KEY
    phase,          \* the App: "mounted", "updated" once an update has
                    \* been rendered, "crashed" once a render has thrown
    result,         \* useGetPosts' result as last rendered
    resultQueue,    \* the setResult calls not yet rendered
    requests        \* the fetches in flight

memoVars == <<fn, cache, last, computed, options>>
bulbVars == <<bulb, sent, resetNext>>
themeVars == <<theme, themeQueue>>
selectionVars == <<selectedItem, selectionQueue>>
countVars == <<count, countQueue, setters, called>>
notesVars == <<notes, plainNotes, notesQueue, storage, phase>>
postsVars == <<result, resultQueue, requests>>

vars == <<memoVars, bulbVars, themeVars, selectionVars, countVars,
          notesVars, postsVars>>

\* what a step of one program leaves alone
exceptMemo == <<bulbVars, themeVars, selectionVars, countVars, notesVars,
                postsVars>>
exceptBulb == <<memoVars, themeVars, selectionVars, countVars, notesVars,
                postsVars>>
exceptTheme == <<memoVars, bulbVars, selectionVars, countVars, notesVars,
                 postsVars>>
exceptSelection == <<memoVars, bulbVars, themeVars, countVars, notesVars,
                     postsVars>>
exceptCount == <<memoVars, bulbVars, themeVars, selectionVars, notesVars,
                 postsVars>>
exceptNotes == <<memoVars, bulbVars, themeVars, selectionVars, countVars,
                 postsVars>>
exceptPosts == <<memoVars, bulbVars, themeVars, selectionVars, countVars,
                 notesVars>>

----------------------------------------------------------------------------
(* Bounds *)

\* largest argument given to factorial
MaxN == 5

----------------------------------------------------------------------------
(* JavaScript values.  Every value is a record with the same two fields.   *)

Num(n) == [t |-> "number", v |-> n]
NaN == [t |-> "NaN", v |-> 0]
Null == [t |-> "null", v |-> 0]
Undefined == [t |-> "undefined", v |-> 0]
\* an object that refers to itself: JSON.stringify throws a TypeError on it
Circular == [t |-> "circular", v |-> 0]

\* the error JSON.stringify throws, and the error a failing fn throws
StringifyError == [t |-> "TypeError", v |-> 0]
FnError == [t |-> "Error", v |-> 1]

\* the outcome of running a function body: a returned value, or a thrown one
Return(val) == [threw |-> FALSE, value |-> val]
Throw(err) == [threw |-> TRUE, value |-> err]

----------------------------------------------------------------------------
(* Key derivation: args.map(JSON.stringify).join('---')                    *)

DigitText == <<"0", "1", "2", "3", "4", "5", "6", "7", "8", "9">>

RECURSIVE NumberText(_)
\* the decimal text of a natural number, as Number::toString gives it
NumberText(n) ==
    IF n < 10 THEN DigitText[n + 1]
    ELSE NumberText(n \div 10) \o DigitText[(n % 10) + 1]

\* JSON.stringify throws on a circular structure
StringifyThrows(val) == val.t = "circular"

\* JSON.stringify(val) where it does not throw: a text, or undefined
\* (defined = FALSE).  NaN is serialized as null; undefined has no JSON text.
JSONStringify(val) ==
    CASE val.t = "number" -> [defined |-> TRUE, text |-> NumberText(val.v)]
      [] val.t = "NaN" -> [defined |-> TRUE, text |-> "null"]
      [] val.t = "null" -> [defined |-> TRUE, text |-> "null"]
      [] OTHER -> [defined |-> FALSE, text |-> ""]

\* the delimiter of the key
Delimiter == "---"

\* Array.prototype.join turns an undefined element into the empty text
ElementText(s) == IF s.defined THEN s.text ELSE ""

RECURSIVE Join(_, _)
Join(texts, sep) ==
    IF Len(texts) = 0 THEN ""
    ELSE IF Len(texts) = 1 THEN ElementText(texts[1])
    ELSE ElementText(texts[1]) \o sep \o Join(Tail(texts), sep)

\* the mutant of DeriveKey that joins without a delimiter
DeriveKeyNoDelimiter(args) ==
    Join([k \in 1..Len(args) |-> JSONStringify(args[k])], "")

\* line 48, for arguments JSON.stringify accepts
DeriveKey(args) ==
    Join([k \in 1..Len(args) |-> JSONStringify(args[k])], Delimiter)

\* line 48 throws when JSON.stringify throws on one of the arguments
KeyThrows(args) == \E k \in 1..Len(args) : StringifyThrows(args[k])

----------------------------------------------------------------------------
(* The cache object: `const cache = {}`                                    *)

EmptyCache == [k \in {} |-> Undefined]

\* cache[key]: undefined when the object has no such property
Lookup(c, key) == IF key \in DOMAIN c THEN c[key] ELSE Undefined

\* cache[key] = result
Store(c, key, val) ==
    [k \in (DOMAIN c) \cup {key} |-> IF k = key THEN val ELSE c[k]]

----------------------------------------------------------------------------
(* The functions passed to memoize                                         *)

\* ToNumber of the values an addition can meet here (-1 stands for NaN)
ToNumber(val) ==
    CASE val.t = "number" -> val.v
      [] val.t = "null" -> 0
      [] OTHER -> -1

\* function add(x, y) { return x + y }
Add(x, y) ==
    IF ToNumber(x) < 0 \/ ToNumber(y) < 0 THEN NaN
    ELSE Num(ToNumber(x) + ToNumber(y))

AddFn == [kind |-> "add", tab |-> <<>>]
FactorialFn == [kind |-> "factorial", tab |-> <<>>]
\* a pure function given by its table of outcomes
TableFn(tab) == [kind |-> "table", tab |-> tab]

\* the argument lists memoizedAdd is called with
AddArgs ==
    { <<Num(12), Num(3)>>, <<Num(1), Num(23)>>, <<Num(3), Num(12)>>,
      <<Num(23), Num(1)>>, <<Num(1), Circular>> }

\* the argument lists factorial is called with
FactorialArgs == { <<Num(n)>> : n \in 0..MaxN } \cup { <<Circular>> }

\* the argument lists a table function is defined on, and the ones its
\* memoized function is called with
TableDomain == { <<Num(1)>>, <<Null>>, <<NaN>> }
TableArgs == TableDomain \cup { <<Circular>> }

\* what a table function may do for one argument list
TableOutcomes ==
    { Return(Num(10)), Return(Num(20)), Return(Undefined), Throw(FnError) }

ArgsOf(f) ==
    CASE f.kind = "add" -> AddArgs
      [] f.kind = "factorial" -> FactorialArgs
      [] OTHER -> TableArgs

----------------------------------------------------------------------------
(* memoize                                                                 *)

\* the mutant of KeyFailure that swallows the error and returns undefined
KeyFailureSwallowed(c, err) ==
    [cache |-> c, threw |-> FALSE, value |-> Undefined, hit |-> FALSE,
     trace |-> <<>>]

\* line 48 threw: nothing after it runs, the error reaches the caller
KeyFailure(c, err) ==
    [cache |-> c, threw |-> TRUE, value |-> err, hit |-> FALSE,
     trace |-> <<>>]

\* the mutant of CacheAfter that stores whatever the call of fn produced
CacheAfterAlways(c, key, out) == Store(c, key, out.value)

\* lines 57-58: the assignment to cache[key] runs only when fn returned
CacheAfter(c, key, out) ==
    IF out.threw THEN c ELSE Store(c, key, out.value)

\* lines 50-55: the test that decides a cache hit
IsHit(c, key) == Lookup(c, key) # Undefined

RECURSIVE Memoized(_, _, _)
RECURSIVE RunFn(_, _, _)
RECURSIVE FactorialBody(_, _, _)

\* the mutant of FactorialBody that recurses into the function itself and
\* not into its memoized version
RECURSIVE FactorialBodyUnmemoized(_, _, _)
FactorialBodyUnmemoized(f, c, n) ==
    IF n = Num(0) THEN [cache |-> c, out |-> Return(Num(1)), trace |-> <<>>]
    ELSE LET r == FactorialBodyUnmemoized(f, c, Num(n.v - 1))
         IN  [cache |-> c, out |-> Return(Num(n.v * r.out.value.v)),
              trace |-> <<>>]

\* lines 92-98: n => n === 0 ? 1 : n * factorial(n - 1), where factorial is
\* the memoized function itself, called on the cache as it is by then
FactorialBody(f, c, n) ==
    IF n = Num(0) THEN [cache |-> c, out |-> Return(Num(1)), trace |-> <<>>]
    ELSE LET r == Memoized(f, c, <<Num(n.v - 1)>>)
         IN  [cache |-> r.cache,
              out |-> IF r.threw THEN Throw(r.value)
                      ELSE Return(Num(n.v * r.value.v)),
              trace |-> r.trace]

\* line 57, fn(...args): the cache after the body ran, its outcome, and the
\* calls of fn that finished inside it
RunFn(f, c, args) ==
    CASE f.kind = "add" ->
           [cache |-> c, out |-> Return(Add(args[1], args[2])), trace |-> <<>>]
      [] f.kind = "factorial" -> FactorialBody(f, c, args[1])
      [] OTHER -> [cache |-> c, out |-> f.tab[args], trace |-> <<>>]

\* lines 44-61: one call of the function memoize returns, on cache c.
\* trace lists the calls of fn made, nested ones first.
Memoized(f, c, args) ==
    IF KeyThrows(args) THEN KeyFailure(c, StringifyError)
    ELSE LET key == DeriveKey(args) IN
         IF IsHit(c, key)
         THEN [cache |-> c, threw |-> FALSE, value |-> Lookup(c, key),
               hit |-> TRUE, trace |-> <<>>]
         ELSE LET r == RunFn(f, c, args)
              IN  [cache |-> CacheAfter(r.cache, key, r.out),
                   threw |-> r.out.threw,
                   value |-> r.out.value,
                   hit |-> FALSE,
                   trace |-> Append(r.trace,
                                    [args |-> args, threw |-> r.out.threw])]

----------------------------------------------------------------------------
(* memoize called with a second argument                                   *)

\* what a caller may pass as options: a keyFn that makes the key from the
\* first argument alone, a cacheFactory that returns a cache with entries
NoOptions == [keyFn |-> FALSE, cacheFactory |-> FALSE]
OptionSets == [keyFn : BOOLEAN, cacheFactory : BOOLEAN]

\* the caller's keyFn: args => JSON.stringify(args[0])
CustomKey(args) == ElementText(JSONStringify(args[1]))

\* the cache the caller's cacheFactory returns
FactoryCache == [k \in {"12---3", "12", "3"} |-> Num(99)]

\* the mutant of MemoizedWith: a memoize that reads keyFn and cacheFactory
\* from its second argument (an untouched cache is the factory's)
MemoizedHonouring(opts, f, c, args) ==
    LET c0 == IF opts.cacheFactory /\ c = EmptyCache THEN FactoryCache ELSE c
        key == IF opts.keyFn THEN CustomKey(args) ELSE DeriveKey(args)
    IN  IF KeyThrows(args) THEN KeyFailure(c0, StringifyError)
        ELSE IF IsHit(c0, key)
        THEN [cache |-> c0, threw |-> FALSE, value |-> Lookup(c0, key),
              hit |-> TRUE, trace |-> <<>>]
        ELSE LET r == RunFn(f, c0, args)
             IN  [cache |-> CacheAfter(r.cache, key, r.out),
                  threw |-> r.out.threw, value |-> r.out.value, hit |-> FALSE,
                  trace |-> Append(r.trace,
                                   [args |-> args, threw |-> r.out.threw])]

\* line 36: memoize has the one parameter fn, so memoize(fn, opts) returns
\* the function memoize(fn) returns; nothing in lines 36-62 reads opts
MemoizedWith(opts, f, c, args) == Memoized(f, c, args)

----------------------------------------------------------------------------
(* The light bulb: a useReducer state machine with data                     *)

\* const initial = { current: 'unlit', data: {} }; data is read through its
\* color alone, "none" when data.color is undefined
initial == [current |-> "unlit", data |-> [color |-> "none"]]

EVENTS == {"TOGGLE", "BREAK", "RESET"}
COLORS == {"white", "red", "blue", "green"}

\* what may be sent: a string, or an object with a type and a color
StringEvent(type) == [form |-> "string", type |-> type, color |-> "none"]
ObjectEvent(type, color) == [form |-> "object", type |-> type, color |-> color]

\* an event type neither the graph nor the updaters know
OtherType == "FLICKER"

toEventObject(event) ==
    IF event.form = "string"
    THEN [type |-> event.type, color |-> "none"]
    ELSE [type |-> event.type, color |-> event.color]

\* the value of a missing property
NoNextState == "undefined"

\* RESET_EVENT = { RESET: initialState.current }: the file declares initial,
\* not initialState; where the name is bound to the initial state the value
\* is 'unlit', where it is bound to something without a current it is
\* undefined
ResetTargets == {"unlit", NoNextState}

\* the mutant of NEXT_STATE_GRAPH: CHANGE_COLOR is listed under unlit too
GraphColorWhenUnlit(reset, current, type) ==
    CASE current = "lit" /\ type = "BREAK" -> "broken"
      [] current = "lit" /\ type = "RESET" -> reset
      [] current = "lit" /\ type = "CHANGE_COLOR" -> "lit"
      [] current = "lit" /\ type = "TOGGLE" -> "unlit"
      [] current = "unlit" /\ type = "BREAK" -> "broken"
      [] current = "unlit" /\ type = "RESET" -> reset
      [] current = "unlit" /\ type = "CHANGE_COLOR" -> "unlit"
      [] current = "unlit" /\ type = "TOGGLE" -> "lit"
      [] current = "broken" /\ type = "RESET" -> reset
      [] OTHER -> NoNextState

NEXT_STATE_GRAPH(reset, current, type) ==
    CASE current = "lit" /\ type = "BREAK" -> "broken"
      [] current = "lit" /\ type = "RESET" -> reset
      [] current = "lit" /\ type = "CHANGE_COLOR" -> "lit"
      [] current = "lit" /\ type = "TOGGLE" -> "unlit"
      [] current = "unlit" /\ type = "BREAK" -> "broken"
      [] current = "unlit" /\ type = "RESET" -> reset
      [] current = "unlit" /\ type = "TOGGLE" -> "lit"
      [] current = "broken" /\ type = "RESET" -> reset
      [] OTHER -> NoNextState

HasUpdater(type) == type \in {"CHANGE_COLOR", "RESET"}

DATA_UPDATERS(type, data, event) ==
    CASE type = "CHANGE_COLOR" -> [data EXCEPT !.color = event.color]
      [] type = "RESET" -> initial.data

stateReducer(reset, state, event) ==
    NEXT_STATE_GRAPH(reset, state.current, event.type)

dataReducer(data, event) ==
    IF HasUpdater(event.type) THEN DATA_UPDATERS(event.type, data, event)
    ELSE data

\* the mutant of reducer: the data is reduced before the next state is
\* looked at
ReducerDataFirst(reset, state, rawEvent) ==
    LET event == toEventObject(rawEvent)
        nextState == stateReducer(reset, state, event)
        nextData == dataReducer(state.data, event)
    IN  [current |-> IF nextState = NoNextState THEN state.current
                     ELSE nextState,
         data |-> nextData]

reducer(reset, state, rawEvent) ==
    LET event == toEventObject(rawEvent)
        nextState == stateReducer(reset, state, event)
    IN  IF nextState = NoNextState THEN state
        ELSE [current |-> nextState, data |-> dataReducer(state.data, event)]

NoEvent == StringEvent("none")

BulbIdle ==
    /\ bulb = initial
    /\ sent = NoEvent
    /\ resetNext = "unlit"

\* send(event) of useReducer(reducer, initial)
send(event) ==
    /\ bulb' = reducer(resetNext, bulb, event)
    /\ sent' = event

\* the buttons of EVENTS: onClick={() => send(event)}
SendEvent ==
    \E type \in EVENTS :
        /\ send(StringEvent(type))
        /\ UNCHANGED <<resetNext, exceptBulb>>

\* the buttons of COLORS: send({ type: 'CHANGE_COLOR', color: value })
SendColor ==
    \E color \in COLORS :
        /\ send(ObjectEvent("CHANGE_COLOR", color))
        /\ UNCHANGED <<resetNext, exceptBulb>>

\* any other dispatch: a type as a string, an object of some other type
SendOther ==
    \E event \in { StringEvent("CHANGE_COLOR"), StringEvent(OtherType),
                   ObjectEvent(OtherType, "none"), ObjectEvent("RESET", "red") } :
        /\ send(event)
        /\ UNCHANGED <<resetNext, exceptBulb>>

----------------------------------------------------------------------------
(* React.useState: a setter call is queued, a render processes the queue   *)

\* setX(value) and setX(updater): what a setter call puts on the queue
Value(v) == [fn |-> "value", arg |-> v]
Updater(name, arg) == [fn |-> name, arg |-> arg]

----------------------------------------------------------------------------
(* ThemeProvider                                                           *)

\* the mutant of ToggleTheme: s => (s === 'light' ? 'dark' : undefined)
ToggleThemeNoElse(s) == IF s = "light" THEN "dark" ELSE "undefined"

\* s => (s === 'light' ? 'dark' : 'light')
ToggleTheme(s) == IF s = "light" THEN "dark" ELSE "light"

ApplyTheme(s, update) ==
    IF update.fn = "value" THEN update.arg ELSE ToggleTheme(s)

RECURSIVE ReduceTheme(_, _)
ReduceTheme(s, queue) ==
    IF queue = <<>> THEN s
    ELSE ReduceTheme(ApplyTheme(s, Head(queue)), Tail(queue))

ThemeIdle ==
    /\ theme = "light"
    /\ themeQueue = <<>>

----------------------------------------------------------------------------
(* useItemSelection                                                        *)

NoItem == [name |-> "null", id |-> "undefined"]

\* the items offered for selection: two with ids, one without
Items == { [name |-> "a", id |-> "1"], [name |-> "b", id |-> "2"],
           [name |-> "c", id |-> "undefined"] }

\* const tryId = x => x?.id
tryId(x) == x.id

\* currentItem => getKey(item) === getKey(currentItem) ? null : item
SmartSelect(item, currentItem) ==
    IF tryId(item) = tryId(currentItem) THEN NoItem ELSE item

ApplySelection(s, update) ==
    IF update.fn = "value" THEN update.arg ELSE SmartSelect(update.arg, s)

RECURSIVE ReduceSelection(_, _)
ReduceSelection(s, queue) ==
    IF queue = <<>> THEN s
    ELSE ReduceSelection(ApplySelection(s, Head(queue)), Tail(queue))

SelectionIdle ==
    /\ selectedItem = NoItem
    /\ selectionQueue = <<>>

----------------------------------------------------------------------------
(* useTripleCount                                                          *)

\* the two ways the post writes the handlers
SetterStyles == {"value", "function"}

\* one setState call of inc and of dec, made in the render that shows s
IncUpdateAlwaysFunction(style, s) == Updater("plus", 1)

IncUpdate(style, s) ==
    IF style = "value" THEN Value(s + 1) ELSE Updater("plus", 1)

DecUpdate(style, s) ==
    IF style = "value" THEN Value(s - 1) ELSE Updater("plus", -1)

ApplyCount(s, update) ==
    IF update.fn = "value" THEN update.arg ELSE s + update.arg

RECURSIVE ReduceCount(_, _)
ReduceCount(s, queue) ==
    IF queue = <<>> THEN s
    ELSE ReduceCount(ApplyCount(s, Head(queue)), Tail(queue))

CountIdle ==
    /\ count = 0
    /\ countQueue = <<>>
    /\ setters = "value"
    /\ called = <<>>

----------------------------------------------------------------------------
(* The notes App: setNotes and wrappedSetNotes                             *)

\* a note: an id, a text, and whether the note refers to itself, which
\* JSON.stringify cannot serialize
Note(id, text) == [id |-> id, text |-> text, self |-> FALSE]
CyclicNote(id, text) == [id |-> id, text |-> text, self |-> TRUE]
NoNote == Note("", "")

NoteIds == {"1", "2"}

\* what the handlers and callers pass to the setter: an updater function
\* made by createNote, updateNote or deleteNote, or a next state
NotesUpdater(name, note) == [fn |-> name, note |-> note, value |-> <<>>]
NotesValue(v) == [fn |-> "value", note |-> NoNote, value |-> v]

\* currentNotes.findIndex(note => note.id === id), 0 for -1
RECURSIVE FindIndexFrom(_, _, _)
FindIndexFrom(currentNotes, id, k) ==
    IF k > Len(currentNotes) THEN 0
    ELSE IF currentNotes[k].id = id THEN k
    ELSE FindIndexFrom(currentNotes, id, k + 1)

FindIndex(currentNotes, id) == FindIndexFrom(currentNotes, id, 1)

\* currentNotes => [...currentNotes, note]
CreateNote(currentNotes, note) == Append(currentNotes, note)

\* { ...currentNotes[index], ...update } in place, or currentNotes
UpdateNote(currentNotes, update) ==
    LET index == FindIndex(currentNotes, update.id)
    IN  IF index = 0 THEN currentNotes
        ELSE [currentNotes EXCEPT ![index] =
                 [id |-> update.id, text |-> update.text,
                  self |-> update.self]]

\* currentNotes without the first note of that id, or currentNotes
DeleteNote(currentNotes, id) ==
    LET index == FindIndex(currentNotes, id)
    IN  IF index = 0 THEN currentNotes
        ELSE SubSeq(currentNotes, 1, index - 1)
                \o SubSeq(currentNotes, index + 1, Len(currentNotes))

\* typeof update === 'function' ? update(currentNotes) : update
NextState(update, currentNotes) ==
    CASE update.fn = "create" -> CreateNote(currentNotes, update.note)
      [] update.fn = "update" -> UpdateNote(currentNotes, update.note)
      [] update.fn = "delete" -> DeleteNote(currentNotes, update.note.id)
      [] OTHER -> update.value

\* JSON.stringify(nextState): throws on a note that refers to itself
StringifyNotesThrows(ns) == \E k \in DOMAIN ns : ns[k].self

NoteJSON(note) ==
    "{\"id\":" \o note.id \o ",\"text\":\"" \o note.text \o "\"}"

RECURSIVE NotesElements(_)
NotesElements(ns) ==
    IF Len(ns) = 0 THEN ""
    ELSE IF Len(ns) = 1 THEN NoteJSON(ns[1])
    ELSE NoteJSON(ns[1]) \o "," \o NotesElements(Tail(ns))

StringifyNotes(ns) == "[" \o NotesElements(ns) \o "]"

\* localStorage: no item under the key, or the item's text
NoItemStored == <<>>
Stored(text) == <<text>>

\* the mutant of WrappedUpdater: currentNotes is what goes to localStorage
WrappedUpdaterStoresCurrent(update, currentNotes, store) ==
    LET nextState == NextState(update, currentNotes)
    IN  IF StringifyNotesThrows(currentNotes)
        THEN [threw |-> TRUE, notes |-> currentNotes, storage |-> store]
        ELSE [threw |-> FALSE, notes |-> nextState,
              storage |-> Stored(StringifyNotes(currentNotes))]

\* the updater wrappedSetNotes hands to setNotes: it determines nextState,
\* stores its JSON and returns it; a throw of JSON.stringify leaves it
WrappedUpdater(update, currentNotes, store) ==
    LET nextState == NextState(update, currentNotes)
    IN  IF StringifyNotesThrows(nextState)
        THEN [threw |-> TRUE, notes |-> currentNotes, storage |-> store]
        ELSE [threw |-> FALSE, notes |-> nextState,
              storage |-> Stored(StringifyNotes(nextState))]

\* a render of the App that calls wrappedSetNotes: the queued updaters run
\* in order until one throws
RECURSIVE ReduceWrapped(_, _, _)
ReduceWrapped(currentNotes, store, queue) ==
    IF queue = <<>>
    THEN [threw |-> FALSE, notes |-> currentNotes, storage |-> store]
    ELSE LET r == WrappedUpdater(Head(queue), currentNotes, store)
         IN  IF r.threw THEN r
             ELSE ReduceWrapped(r.notes, r.storage, Tail(queue))

\* a render of the App that calls setNotes
RECURSIVE ReducePlain(_, _)
ReducePlain(currentNotes, queue) ==
    IF queue = <<>> THEN currentNotes
    ELSE ReducePlain(NextState(Head(queue), currentNotes), Tail(queue))

NotesIdle ==
    /\ notes = <<>>
    /\ plainNotes = <<>>
    /\ notesQueue = <<>>
    /\ storage = NoItemStored
    /\ phase = "mounted"

----------------------------------------------------------------------------
(* useGetPosts                                                             *)

States == {"IDLE", "LOADING", "SUCCESS", "FAILURE"}

\* what res.json() can resolve with: a Data object with some posts, or any
\* other JSON the response holds, such as null or an object without posts
PostsData(posts) == [t |-> "Data", v |-> posts]
OtherObject == [t |-> "object", v |-> 0]
JsonBodies == { PostsData(0), PostsData(1), OtherObject, Null }

\* what fetch and res.json() reject with
FetchError == [t |-> "TypeError", v |-> 1]
JsonError == [t |-> "SyntaxError", v |-> 0]
Errors == { FetchError, JsonError }

\* the tuples the hook passes to setResult
IdleResult == <<"IDLE", Undefined>>
LoadingResult == <<"LOADING", Undefined>>
SuccessResult(data) == <<"SUCCESS", data>>
FailureResultWithoutError(error) == <<"FAILURE", Undefined>>
FailureResult(error) == <<"FAILURE", error>>

\* setResult is only called with values: a render shows the last one
RECURSIVE ReduceResult(_, _)
ReduceResult(s, queue) ==
    IF queue = <<>> THEN s
    ELSE ReduceResult(Head(queue).arg, Tail(queue))

PostsIdle ==
    /\ result = IdleResult
    /\ resultQueue = <<>>
    /\ requests = <<>>

----------------------------------------------------------------------------
(* The program: two memoized functions, each made by one call of memoize   *)

Instances == {1, 2}

\* the mutant of OwnCache in which memoize keeps one cache for all functions
SharedCache(caches, i) == caches[1]

\* lines 36-44: the cache is created inside memoize, once per call of it, and
\* the returned function closes over that one
OwnCache(caches, i) == caches[i]

\* the pairs of functions memoized: the post's own two, or one function
\* memoized twice
FnPairs ==
    { <<AddFn, FactorialFn>>, <<AddFn, AddFn>> }
    \cup { <<TableFn(t), TableFn(t)>> : t \in [TableDomain -> TableOutcomes] }

NoCall ==
    [inst |-> 0, args |-> <<>>, keyed |-> FALSE, key |-> "", threw |-> FALSE,
     value |-> Undefined, hit |-> FALSE, trace |-> <<>>, tick |-> 0]

Init ==
    /\ fn \in FnPairs
    /\ cache = [i \in Instances |-> EmptyCache]
    /\ last = NoCall
    /\ computed = [i \in Instances |-> {}]
    /\ options = [i \in Instances |-> NoOptions]
    /\ BulbIdle /\ ThemeIdle /\ SelectionIdle /\ CountIdle
    /\ NotesIdle /\ PostsIdle

\* the argument lists for which a call of fn in trace returned
Returned(trace) ==
    { trace[k].args : k \in { j \in 1..Len(trace) : ~trace[j].threw } }

\* one call memoized_i(...args), with everything it does
Call(i, args) ==
    LET r == MemoizedWith(options[i], fn[i], OwnCache(cache, i), args)
    IN  /\ cache' = [cache EXCEPT ![i] = r.cache]
        /\ computed' = [computed EXCEPT ![i] = @ \cup Returned(r.trace)]
        /\ last' = [inst |-> i, args |-> args, keyed |-> ~KeyThrows(args),
                    key |-> IF KeyThrows(args) THEN "" ELSE DeriveKey(args),
                    threw |-> r.threw, value |-> r.value, hit |-> r.hit,
                    trace |-> r.trace, tick |-> 1 - last.tick]
        /\ UNCHANGED <<fn, options, exceptMemo>>

\* memoizedAdd(x, y)
MemoizedAdd ==
    \E i \in Instances : \E args \in AddArgs :
        fn[i].kind = "add" /\ Call(i, args)

\* factorial(n)
Factorial ==
    \E i \in Instances : \E args \in FactorialArgs :
        fn[i].kind = "factorial" /\ Call(i, args)

\* memoize(fn)(...args) for a pure function fn
MemoizedPure ==
    \E i \in Instances : \E args \in TableArgs :
        fn[i].kind = "table" /\ Call(i, args)

Next == MemoizedAdd \/ Factorial \/ MemoizedPure

Spec == Init /\ [][Next]_vars

\* memoize(add, opts) and memoize(n => ..., opts) for every opts
InitOptions ==
    /\ fn = <<AddFn, FactorialFn>>
    /\ cache = [i \in Instances |-> EmptyCache]
    /\ last = NoCall
    /\ computed = [i \in Instances |-> {}]
    /\ options \in { [i \in Instances |-> o] : o \in OptionSets }
    /\ BulbIdle /\ ThemeIdle /\ SelectionIdle /\ CountIdle
    /\ NotesIdle /\ PostsIdle

NextOptions == MemoizedAdd \/ Factorial

SpecOptions == InitOptions /\ [][NextOptions]_vars

\* no memoized function is called
MemoIdle ==
    /\ fn = <<AddFn, FactorialFn>>
    /\ cache = [i \in Instances |-> EmptyCache]
    /\ last = NoCall
    /\ computed = [i \in Instances |-> {}]
    /\ options = [i \in Instances |-> NoOptions]

----------------------------------------------------------------------------
(* The light bulb as a program: any events sent in any order               *)

InitBulb ==
    /\ bulb = initial
    /\ sent = NoEvent
    /\ resetNext \in ResetTargets
    /\ MemoIdle /\ ThemeIdle /\ SelectionIdle /\ CountIdle
    /\ NotesIdle /\ PostsIdle

NextBulb == SendEvent \/ SendColor \/ SendOther

SpecBulb == InitBulb /\ [][NextBulb]_vars

----------------------------------------------------------------------------
(* ThemeProvider as a program: handler calls and renders in any order      *)

\* the setTheme calls that may wait for one render
MaxThemePending == 4

setTheme(update) ==
    /\ Len(themeQueue) < MaxThemePending
    /\ themeQueue' = Append(themeQueue, update)
    /\ UNCHANGED theme

lighten == setTheme(Value("light")) /\ UNCHANGED exceptTheme

darken == setTheme(Value("dark")) /\ UNCHANGED exceptTheme

toggle == setTheme(Updater("toggle", "")) /\ UNCHANGED exceptTheme

RenderTheme ==
    /\ themeQueue # <<>>
    /\ theme' = ReduceTheme(theme, themeQueue)
    /\ themeQueue' = <<>>
    /\ UNCHANGED exceptTheme

InitTheme ==
    /\ ThemeIdle
    /\ MemoIdle /\ BulbIdle /\ SelectionIdle /\ CountIdle
    /\ NotesIdle /\ PostsIdle

NextTheme == lighten \/ darken \/ toggle \/ RenderTheme

SpecTheme == InitTheme /\ [][NextTheme]_vars

----------------------------------------------------------------------------
(* useItemSelection as a program                                           *)

\* the setSelectedItem calls that may wait for one render
MaxPending == 3

setSelectedItem(update) ==
    /\ Len(selectionQueue) < MaxPending
    /\ selectionQueue' = Append(selectionQueue, update)
    /\ UNCHANGED selectedItem

selectItem ==
    \E item \in Items :
        setSelectedItem(Value(item)) /\ UNCHANGED exceptSelection

unselectItem == setSelectedItem(Value(NoItem)) /\ UNCHANGED exceptSelection

smartSelectItem ==
    \E item \in Items :
        setSelectedItem(Updater("smart", item)) /\ UNCHANGED exceptSelection

RenderSelection ==
    /\ selectionQueue # <<>>
    /\ selectedItem' = ReduceSelection(selectedItem, selectionQueue)
    /\ selectionQueue' = <<>>
    /\ UNCHANGED exceptSelection

InitSelection ==
    /\ SelectionIdle
    /\ MemoIdle /\ BulbIdle /\ ThemeIdle /\ CountIdle
    /\ NotesIdle /\ PostsIdle

NextSelection == selectItem \/ unselectItem \/ smartSelectItem \/ RenderSelection

SpecSelection == InitSelection /\ [][NextSelection]_vars

----------------------------------------------------------------------------
(* useTripleCount as a program                                             *)

\* the handler calls that may wait for one render, and the counts reached
MaxCalls == 2
MaxCount == 9

\* the mutant of Thrice: the handler calls setState once
Once(update) == <<update>>

\* the three setState calls of one handler call
Thrice(update) == <<update, update, update>>

\* the counts the waiting calls can lead to stay within MaxCount
Within(s) == -MaxCount <= s /\ s <= MaxCount

inc ==
    /\ Len(called) < MaxCalls
    /\ Within(ReduceCount(count, countQueue) + Len(Thrice(0)))
    /\ countQueue' = countQueue \o Thrice(IncUpdate(setters, count))
    /\ called' = Append(called, "inc")
    /\ UNCHANGED <<count, setters, exceptCount>>

dec ==
    /\ Len(called) < MaxCalls
    /\ Within(ReduceCount(count, countQueue) - Len(Thrice(0)))
    /\ countQueue' = countQueue \o Thrice(DecUpdate(setters, count))
    /\ called' = Append(called, "dec")
    /\ UNCHANGED <<count, setters, exceptCount>>

RenderCount ==
    /\ countQueue # <<>>
    /\ count' = ReduceCount(count, countQueue)
    /\ countQueue' = <<>>
    /\ called' = <<>>
    /\ UNCHANGED <<setters, exceptCount>>

InitCount ==
    /\ count = 0
    /\ countQueue = <<>>
    /\ setters \in SetterStyles
    /\ called = <<>>
    /\ MemoIdle /\ BulbIdle /\ ThemeIdle /\ SelectionIdle
    /\ NotesIdle /\ PostsIdle

NextCount == inc \/ dec \/ RenderCount

SpecCount == InitCount /\ [][NextCount]_vars

----------------------------------------------------------------------------
(* The notes App as a program: the same calls reach an App that calls      *)
(* wrappedSetNotes (notes, storage) and one that calls setNotes            *)
(* (plainNotes)                                                            *)

\* the notes held and the updates that may wait for one render
MaxNotes == 2
MaxNotesPending == 2

\* what localStorage may hold when the App mounts
StoredAtMount ==
    { NoItemStored, Stored(StringifyNotes(<<>>)),
      Stored(StringifyNotes(<<Note("1", "old")>>)) }

\* setNotes(updater) with nothing queued may run the updater at once
\* (React computes the next state eagerly); the render reaches the same
\* state
EagerStorage(update, eager) ==
    LET r == WrappedUpdater(update, notes, storage)
    IN  IF eager /\ notesQueue = <<>> /\ ~r.threw THEN r.storage
        ELSE storage

wrappedSetNotes(update, eager) ==
    /\ phase # "crashed"
    /\ Len(notesQueue) < MaxNotesPending
    /\ notesQueue' = Append(notesQueue, update)
    /\ storage' = EagerStorage(update, eager)
    /\ UNCHANGED <<notes, plainNotes, phase>>

createNote ==
    \E id \in NoteIds, eager \in BOOLEAN :
        /\ Len(ReducePlain(plainNotes, notesQueue)) < MaxNotes
        /\ wrappedSetNotes(NotesUpdater("create", Note(id, "a")), eager)
        /\ UNCHANGED exceptNotes

updateNote ==
    \E id \in NoteIds, eager \in BOOLEAN :
        /\ wrappedSetNotes(NotesUpdater("update", Note(id, "b")), eager)
        /\ UNCHANGED exceptNotes

deleteNote ==
    \E id \in NoteIds, eager \in BOOLEAN :
        /\ wrappedSetNotes(NotesUpdater("delete", Note(id, "")), eager)
        /\ UNCHANGED exceptNotes

\* the setter called with a next state
NextStates == { <<>>, <<Note("2", "a")>>, <<CyclicNote("1", "a")>> }

SetNotesValue ==
    \E v \in NextStates, eager \in BOOLEAN :
        /\ wrappedSetNotes(NotesValue(v), eager)
        /\ UNCHANGED exceptNotes

RenderNotes ==
    LET r == ReduceWrapped(notes, storage, notesQueue)
    IN  /\ phase # "crashed"
        /\ notesQueue # <<>>
        /\ notes' = IF r.threw THEN notes ELSE r.notes
        /\ storage' = r.storage
        /\ phase' = IF r.threw THEN "crashed" ELSE "updated"
        /\ plainNotes' = ReducePlain(plainNotes, notesQueue)
        /\ notesQueue' = <<>>
        /\ UNCHANGED exceptNotes

InitNotes ==
    /\ notes = <<>>
    /\ plainNotes = <<>>
    /\ notesQueue = <<>>
    /\ storage \in StoredAtMount
    /\ phase = "mounted"
    /\ MemoIdle /\ BulbIdle /\ ThemeIdle /\ SelectionIdle /\ CountIdle
    /\ PostsIdle

\* the handlers alone
NextNotes == createNote \/ updateNote \/ deleteNote \/ RenderNotes

SpecNotes == InitNotes /\ [][NextNotes]_vars

\* the handlers and the setter called with next states
NextSetNotes ==
    createNote \/ updateNote \/ deleteNote \/ SetNotesValue \/ RenderNotes

SpecSetNotes == InitNotes /\ [][NextSetNotes]_vars

----------------------------------------------------------------------------
(* useGetPosts as a program: the effect, the fetch's promises, renders     *)

\* the times the effect runs at mount: once, or twice under StrictMode
MaxRequests == 2

setResult(r) == resultQueue' = Append(resultQueue, Value(r))

\* useEffect(() => { setResult([LOADING, undefined]); fetch(...) }, [])
Effect ==
    /\ Len(requests) < MaxRequests
    /\ result = IdleResult
    /\ \A k \in DOMAIN requests : requests[k] = "fetching"
    /\ setResult(LoadingResult)
    /\ requests' = Append(requests, "fetching")
    /\ UNCHANGED <<result, exceptPosts>>

\* fetch resolves with a response: res.json() starts
FetchResolves ==
    \E k \in DOMAIN requests :
        /\ requests[k] = "fetching"
        /\ requests' = [requests EXCEPT ![k] = "parsing"]
        /\ UNCHANGED <<result, resultQueue, exceptPosts>>

\* fetch rejects: .catch(error => setResult([FAILURE, error]))
FetchRejects ==
    \E k \in DOMAIN requests :
        /\ requests[k] = "fetching"
        /\ requests' = [requests EXCEPT ![k] = "settled"]
        /\ setResult(FailureResult(FetchError))
        /\ UNCHANGED <<result, exceptPosts>>

\* res.json() resolves: .then(data => setResult([SUCCESS, data]))
JsonResolves ==
    \E k \in DOMAIN requests, data \in JsonBodies :
        /\ requests[k] = "parsing"
        /\ requests' = [requests EXCEPT ![k] = "settled"]
        /\ setResult(SuccessResult(data))
        /\ UNCHANGED <<result, exceptPosts>>

\* res.json() rejects: .catch(error => setResult([FAILURE, error]))
JsonRejects ==
    \E k \in DOMAIN requests :
        /\ requests[k] = "parsing"
        /\ requests' = [requests EXCEPT ![k] = "settled"]
        /\ setResult(FailureResult(JsonError))
        /\ UNCHANGED <<result, exceptPosts>>

RenderPosts ==
    /\ resultQueue # <<>>
    /\ result' = ReduceResult(result, resultQueue)
    /\ resultQueue' = <<>>
    /\ UNCHANGED <<requests, exceptPosts>>

InitPosts ==
    /\ PostsIdle
    /\ MemoIdle /\ BulbIdle /\ ThemeIdle /\ SelectionIdle /\ CountIdle
    /\ NotesIdle

NextPosts ==
    Effect \/ FetchResolves \/ FetchRejects \/ JsonResolves \/ JsonRejects
        \/ RenderPosts

SpecPosts == InitPosts /\ [][NextPosts]_vars

----------------------------------------------------------------------------
(* What the claims speak of                                                *)

RECURSIVE FactorialValue(_)
\* n!
FactorialValue(n) == IF n = 0 THEN 1 ELSE n * FactorialValue(n - 1)

\* fn(...args) called directly, with no memoization anywhere
FnOutcome(f, args) ==
    CASE f.kind = "add" -> Return(Add(args[1], args[2]))
      [] f.kind = "factorial" -> Return(Num(FactorialValue(args[1].v)))
      [] OTHER -> f.tab[args]

\* fn was invoked for args itself: the last call of fn in trace is that one
InvokedFor(trace, args) == trace # <<>> /\ trace[Len(trace)].args = args

\* the call invoked fn for its own arguments
InvokedFn(l) == InvokedFor(l.trace, l.args)

\* the keys of factorial's arguments 0..n
KeysUpTo(n) == { NumberText(j) : j \in 0..n }

\* C1: a call of a memoized function that returns, returns the value fn
\* returns for the same arguments, whatever was called before.
C1_ReturnsFnValue ==
    (last.inst # 0 /\ ~last.threw) =>
        FnOutcome(fn[last.inst], last.args) = Return(last.value)

\* C2: fn never returns twice for the same argument list of one memoized
\* function, and a call whose key is a stored entry of the cache returns the
\* stored result without invoking fn.
C2_FnInvokedOncePerArgs ==
    [][LET i == last'.inst IN
        /\ \A a \in Returned(last'.trace) : a \notin computed[i]
        /\ (last'.keyed /\ last'.key \in DOMAIN cache[i]) =>
              (last'.trace = <<>> /\ last'.value = cache[i][last'.key])
      ]_vars

C4_DistinctKeysDistinctEntries ==
    \A i \in Instances : fn[i].kind = "add" =>
        /\ \A a \in computed[i] :
              /\ DeriveKey(a) \in DOMAIN cache[i]
              /\ cache[i][DeriveKey(a)] = Add(a[1], a[2])
        /\ \A a, b \in computed[i] : a # b => DeriveKey(a) # DeriveKey(b)
        /\ Cardinality(DOMAIN cache[i]) = Cardinality(computed[i])
        /\ <<Num(12), Num(3)>> \in computed[i] =>
              Lookup(cache[i], "12---3") = Num(15)
        /\ <<Num(1), Num(23)>> \in computed[i] =>
              Lookup(cache[i], "1---23") = Num(24)
        /\ (last.inst = i /\ last.keyed) =>
              /\ last.value = Add(last.args[1], last.args[2])
              /\ last.hit => last.args \in computed[i]

\* (12, 3) and (1, 23) both computed, and the swapped (3, 12) just computed
\* in spite of the entry for (12, 3)
C4_Witness ==
    \E i \in Instances :
        /\ fn[i].kind = "add"
        /\ {<<Num(12), Num(3)>>, <<Num(1), Num(23)>>} \subseteq computed[i]
        /\ last.inst = i
        /\ last.args = <<Num(3), Num(12)>>
        /\ ~last.hit
        /\ last.value = Num(15)

\* C5: a key enters a cache only by a call of fn that returned for arguments
\* of that key, and an entry once in a cache is never removed and its value
\* never replaced.
C5_EntriesNeverChange ==
    [][\A i \in Instances :
        /\ \A k \in DOMAIN cache[i] :
              k \in DOMAIN cache'[i] /\ cache'[i][k] = cache[i][k]
        /\ \A k \in (DOMAIN cache'[i]) \ (DOMAIN cache[i]) :
              /\ last'.inst = i
              /\ \E a \in Returned(last'.trace) : DeriveKey(a) = k
      ]_vars

\* C6: factorial(n) on an empty cache leaves entries for exactly the keys
\* 0..n (for n = 5: 0..5), each holding the factorial of its key; factorial(k)
\* for a k that has an entry (after factorial(5): every k < 5) returns k! from
\* the cache, without invoking the inner function and without adding an entry.
C6_FactorialFillsCache ==
    [][LET l == last'
           i == l.inst
       IN  (fn[i].kind = "factorial" /\ l.keyed) =>
              LET n == l.args[1].v IN
              /\ l.value = Num(FactorialValue(n))
              /\ cache[i] = EmptyCache =>
                    /\ DOMAIN cache'[i] = KeysUpTo(n)
                    /\ \A j \in 0..n :
                          cache'[i][NumberText(j)] = Num(FactorialValue(j))
              /\ (\E m \in n..MaxN : DOMAIN cache[i] = KeysUpTo(m)) =>
                    /\ l.hit
                    /\ l.trace = <<>>
                    /\ cache' = cache
                    /\ computed' = computed
      ]_vars

\* factorial(3) served from the cache that factorial(5) filled
C6_Witness ==
    \E i \in Instances :
        /\ fn[i].kind = "factorial"
        /\ DOMAIN cache[i] = KeysUpTo(5)
        /\ last.inst = i
        /\ last.args = <<Num(3)>>
        /\ last.hit
        /\ last.value = Num(6)

\* every entry of a cache is there for arguments its own fn returned for
OwnEntriesOnly ==
    \A i \in Instances : \A k \in DOMAIN cache[i] :
        \E a \in computed[i] : DeriveKey(a) = k

\* C7: a call of one memoized function leaves the other's cache as it was, a
\* cache holds only entries its own function computed, and a cache hit is
\* served from an entry the function's own fn computed.
C7_CachesAreSeparate ==
    [][LET i == last'.inst IN
        /\ \A j \in Instances \ {i} :
              cache'[j] = cache[j] /\ computed'[j] = computed[j]
        /\ OwnEntriesOnly'
        /\ last'.hit => \E a \in computed[i] : DeriveKey(a) = last'.key
      ]_vars

\* the second memoized function of the same fn computed a result the first
\* one had in its cache
C7_Witness ==
    /\ fn[1] = fn[2]
    /\ last.inst = 2
    /\ last.keyed
    /\ InvokedFn(last)
    /\ ~last.threw
    /\ last.args \in computed[1]
    /\ IsHit(cache[1], last.key)

\* C8: a call whose key derivation throws, throws that error, invokes no fn
\* and leaves every cache as it was.
C8_KeyFailurePropagates ==
    [][(~last'.keyed) =>
          /\ last'.threw
          /\ last'.value = StringifyError
          /\ last'.trace = <<>>
          /\ ~last'.hit
          /\ cache' = cache
          /\ computed' = computed
      ]_vars

\* a call with an argument that cannot be serialized, on a cache with entries
C8_Witness ==
    /\ last.inst # 0
    /\ ~last.keyed
    /\ last.threw
    /\ cache[last.inst] # EmptyCache

\* C9: no other argument list of the function derives the key the call
\* derived.
C9_KeysInjective ==
    (last.inst # 0 /\ last.keyed) =>
        \A a \in ArgsOf(fn[last.inst]) :
            (~KeyThrows(a) /\ a # last.args) => DeriveKey(a) # last.key

\* C10: a cache hit leaves the cache as it was; a call that computes adds one
\* entry for each call of fn that returned in it, the one under its own key
\* holding the result, and changes no entry that was there.
C10_OneEntryPerComputation ==
    [][LET l == last'
           i == l.inst
           new == (DOMAIN cache'[i]) \ (DOMAIN cache[i])
       IN  /\ l.hit => cache' = cache
           /\ (l.keyed /\ ~l.hit /\ ~l.threw) =>
                 /\ new = { DeriveKey(a) : a \in Returned(l.trace) }
                 /\ Cardinality(new) = Len(l.trace)
                 /\ l.key \in new
                 /\ cache'[i][l.key] = l.value
                 /\ \A k \in DOMAIN cache[i] :
                       k \in DOMAIN cache'[i] /\ cache'[i][k] = cache[i][k]
                 /\ \A j \in Instances \ {i} : cache'[j] = cache[j]
      ]_vars

C14_NoTransitionNoUpdate ==
    [][NEXT_STATE_GRAPH(resetNext, bulb.current,
                        toEventObject(sent').type) = NoNextState
          => bulb' = bulb]_vars

\* a red CHANGE_COLOR has been sent to a broken bulb that was blue
C14_Witness ==
    /\ sent = ObjectEvent("CHANGE_COLOR", "red")
    /\ bulb = [current |-> "broken", data |-> [color |-> "blue"]]

\* C15: a CHANGE_COLOR event sent to a lit bulb leaves it lit with data.color
\* the event's color; sent to an unlit or a broken bulb it leaves data.color
\* (and current) as they were.
C15_ColorOnlyWhenLit ==
    [][toEventObject(sent').type = "CHANGE_COLOR" =>
          IF bulb.current = "lit"
          THEN /\ bulb'.current = "lit"
               /\ bulb'.data.color = toEventObject(sent').color
          ELSE /\ bulb'.data.color = bulb.data.color
               /\ bulb'.current = bulb.current]_vars

\* a green CHANGE_COLOR has been sent to a lit bulb
C15_Witness ==
    /\ sent = ObjectEvent("CHANGE_COLOR", "green")
    /\ bulb = [current |-> "lit", data |-> [color |-> "green"]]

\* C13: whatever lighten, darken and toggle calls are made and whenever
\* they are rendered, the theme is 'light' or 'dark'.
C13_ThemeSupported == theme \in {"light", "dark"}

\* a render has processed a toggle and the theme is dark, with a darken and
\* a toggle waiting
C13_Witness ==
    /\ theme = "dark"
    /\ themeQueue = <<Value("dark"), Updater("toggle", "")>>

\* C16 as claimed: a render of one smartSelectItem(item) call leaves nothing
\* selected when item was the selected item and item selected otherwise; in
\* particular item is selected when nothing was.
C16_SmartSelectToggles ==
    [][\A item \in Items :
          (selectionQueue = <<Updater("smart", item)>>
              /\ selectionQueue' = <<>>) =>
             selectedItem' = IF selectedItem = item THEN NoItem ELSE item]_vars

\* C20: with the value-based setters, the render after one call of inc shows
\* the state one higher, and the render after one call of dec one lower.
C20_ValueSettersChangeByOne ==
    [][(setters = "value" /\ called' = <<>>) =>
          /\ called = <<"inc">> => count' = count + 1
          /\ called = <<"dec">> => count' = count - 1]_vars

\* inc has been called once from 0 and rendered, and dec is called
C20_Witness ==
    /\ setters = "value"
    /\ count = 1
    /\ called = <<"dec">>

\* C17: once createNote, updateNote and deleteNote calls have been rendered
\* and none is waiting, localStorage holds, under the key, the JSON text of
\* the notes.
C17_StorageHoldsNotes ==
    (phase = "updated" /\ notesQueue = <<>>) =>
        storage = Stored(StringifyNotes(notes))

\* two notes were created, the first was updated and the second deleted
C17_Witness ==
    /\ phase = "updated"
    /\ notesQueue = <<>>
    /\ notes = <<Note("1", "b")>>
    /\ storage = Stored("[{\"id\":1,\"text\":\"b\"}]")

\* C18 as claimed: after the same updates, values or updater functions, the
\* App that calls wrappedSetNotes holds the notes the App that calls
\* setNotes holds.
C18_WrappedEqualsPlain == notesQueue = <<>> => notes = plainNotes

C21_FunctionUpdatersChangeByThree ==
    [][(setters = "function" /\ called # <<>> /\ called' = <<>>) =>
          LET incs == Cardinality({k \in DOMAIN called : called[k] = "inc"})
              decs == Cardinality({k \in DOMAIN called : called[k] = "dec"})
          IN  /\ called = <<"inc">> => count' = count + 3
              /\ called = <<"dec">> => count' = count - 3
              /\ count' = count + 3 * incs - 3 * decs]_vars

\* inc has been called once from 0 and rendered, and dec is called
C21_Witness ==
    /\ setters = "function"
    /\ count = 3
    /\ called = <<"dec">>

====
